---- MODULE Spec2Model ----
(***************************************************************************)
(* A model of pygeoprocessing/geoprocessing_core.pyx: the mask builder     *)
(* (MaskWrapper), the two-phase Euclidean distance transform               *)
(* (distance_transform_edt), the slope estimator (calculate_slope) and the  *)
(* streaming statistics worker (stats_worker).                             *)
(*                                                                         *)
(* Rasters are functions from cells <<row, col>> to values.  A raster that *)
(* has been created but not yet written everywhere is a partial function,  *)
(* its domain being the cells written so far.                              *)
(*                                                                         *)
(* Integers: every int32 quantity of the transform stays far below 2^31    *)
(* within the bounds of the model, so no wrap-around is modelled.          *)
(* Floats: the only float operation of the transform is a square root of a *)
(* non-negative integer; a float value is the record [neg, sq] standing    *)
(* for -sqrt(sq) or +sqrt(sq), so -1.0 is [neg |-> TRUE, sq |-> 1].        *)
(* The slope estimator computes with float64 values of the form            *)
(* r + i * 2**0.5, r and i rational; these are kept exactly, and a slope   *)
(* is again [neg, sq] with sq of that form.                                *)
(***************************************************************************)
EXTENDS Integers, Sequences, FiniteSets, TLC

\* ---------------------------------------------------------------- bounds
\* Largest number of cells of a raster handed to distance_transform_edt.
MaxCells == 6
\* Largest natural block width / height reported by the raster collaborator.
MaxBlock == 2

\* ------------------------------------------------------------- constants
\* cdef float NODATA = -1.0
NODATA == -1

\* Inputs of the EDT runs: the nodata value of the source band, and the
\* values of its pixels (zero, non-zero, nodata).
EdtNodata == {9}
EdtPixels == {0, 1, 9}

VARIABLES
    \* ---- distance_transform_edt
    epc,              \* position in distance_transform_edt
    base_raster,      \* the source band, cell -> value
    base_nodata,      \* its nodata value
    n_rows, n_cols,   \* RasterYSize, RasterXSize
    block_xsize,      \* raster_info['block_size'][0]
    block_ysize,      \* g_band.GetBlockSize()[1]
    mask_raster,      \* the temporary mask raster (base_mask_path), as stored bytes
    g_raster,         \* the temporary raster G (g_path)
    g_flushed,        \* cells of G that a FlushCache has made durable
    g_read,           \* cells of G that phase 2 has read
    target_raster,    \* target_distance_path
    xoff, yoff,       \* offset of the next strip
    s_array, t_array, \* the two stacks of phase 2
    tmp_created,      \* temporary files created by mkstemp
    tmp_removed,      \* temporary files os.remove was called on
    warnings,         \* temporary files whose removal failed and was logged
    strips,           \* history: the windows of the strips read and written
    \* ---- stats_worker and the producer that feeds it
    wpc,              \* position in stats_worker
    stats_work_queue, \* the bounded queue of blocks, and of the result
    exception_queue,  \* the error channel
    payload,          \* the last payload the worker got
    n, M_local, S_local, min_value, max_value, x,   \* the worker's locals
    todo,             \* blocks the producer has yet to push before the marker
    ppc,              \* position of the producer
    consumed,         \* history: the samples consumed, in order
    blocks_got,       \* history: the number of blocks the worker consumed
    blocks_put,       \* history: the number of blocks the producer pushed
    gets,             \* history: the number of get calls of the worker
    emitted,          \* history: what the worker put on the result channel
    divisors,         \* history: the counts the worker divided by
    bad_pushed,       \* history: the producer pushed a malformed block
    \* ---- MaskWrapper
    mpc,              \* position of the caller of MaskWrapper.__call__
    base_array,       \* the window passed to MaskWrapper.__call__
    self_base_nodata, \* self.base_nodata
    mask_result,      \* the array MaskWrapper.__call__ returned
    \* ---- calculate_slope
    spc,              \* position in calculate_slope
    dem_raster,       \* the elevation band, cell -> elevation
    dem_nodata,       \* dem_info['nodata'][0]
    x_cell_size, y_cell_size,     \* dem_info['pixel_size']
    dem_n_rows, dem_n_cols,       \* dem_info['raster_size'] (n_rows, n_cols)
    dem_block_xsize, dem_block_ysize, \* the natural block size of the band
    block_offsets,    \* the blocks iterblocks has yet to yield
    block_offset,     \* the block being processed (None before the first)
    dem_array,        \* the haloed window read for block_offset
    target_slope_raster,  \* target_slope_path, cell -> slope value
    slope_writes      \* history: how often WriteArray wrote each cell

edtVars == <<epc, base_raster, base_nodata, n_rows, n_cols, block_xsize,
             block_ysize, mask_raster, g_raster, g_flushed, g_read,
             target_raster, xoff, yoff, s_array, t_array, tmp_created,
             tmp_removed, warnings, strips>>

statsVars == <<wpc, stats_work_queue, exception_queue, payload, n, M_local,
               S_local, min_value, max_value, x, todo, ppc, consumed,
               blocks_got, blocks_put, gets, emitted, divisors, bad_pushed>>

maskVars == <<mpc, base_array, self_base_nodata, mask_result>>

slopeVars == <<spc, dem_raster, dem_nodata, x_cell_size, y_cell_size,
               dem_n_rows, dem_n_cols, dem_block_xsize, dem_block_ysize,
               block_offsets, block_offset, dem_array, target_slope_raster,
               slope_writes>>

vars == <<edtVars, statsVars, maskVars, slopeVars>>

\* What each component leaves alone.
notEdtVars == <<statsVars, maskVars, slopeVars>>
notStatsVars == <<edtVars, maskVars, slopeVars>>
notMaskVars == <<edtVars, statsVars, slopeVars>>
notSlopeVars == <<edtVars, statsVars, maskVars>>

\* ------------------------------------------------------------ MaskWrapper

Cells(nr, nc) == (0 .. nr - 1) \X (0 .. nc - 1)

\* numpy's conversion of a boolean to an int8.
BoolToInt8(b) == IF b THEN 1 ELSE 0

\* valid_mask = base_array != self.base_nodata
ValidMask(nodata, arr) == [p \in DOMAIN arr |-> arr[p] # nodata]

\* A mask builder that stores the valid values themselves.
MaskValueRaw(v) == v
\* result[valid_mask] = base_array[valid_mask] != 0
MaskValue(v) == BoolToInt8(v # 0)

\* MaskWrapper.__call__
MaskWrapper(nodata, arr) ==
    LET result == [p \in DOMAIN arr |-> NODATA]
        valid_mask == ValidMask(nodata, arr)
    IN  [p \in DOMAIN arr |->
            IF valid_mask[p] THEN MaskValue(arr[p]) ELSE result[p]]

\* The int8 mask is stored in a GDT_Byte raster and read back into an int8
\* buffer: the byte pattern is kept.
Int8ToByte(v) == v % 256
ByteToInt8(b) == IF b >= 128 THEN b - 256 ELSE b


\* -------------------------------------------------- distance_transform_edt

\* A float32 value +sqrt(d) or -sqrt(d).
FSqrt(d) == [neg |-> FALSE, sq |-> d]
\* NODATA (-1.0) as a float32 value.
FNodata == [neg |-> TRUE, sq |-> 1]

\* C division of ints (cdivision=True): the quotient is truncated toward zero.
CDiv(a, b) ==
    IF b > 0
    THEN IF a >= 0 THEN a \div b ELSE -((-a) \div b)
    ELSE IF a >= 0 THEN -(a \div (-b)) ELSE (-a) \div (-b)

\* numerical_inf = raster_size[0] + raster_size[1]
NumericalInf(nr, nc) == nc + nr

\* g_block[0, :] = (mask_block[0, :] == 0) * numerical_inf
GBaseCase(m, inf) == BoolToInt8(m = 0) * inf

\* Forward sweep, rows 1 .. n_rows-1 of one column.
GForwardCell(m, g_above) == IF m = 1 THEN 0 ELSE g_above + 1

\* Backward sweep, rows n_rows-2 .. 0 of one column.
GBackwardCell(g_here, g_below) ==
    IF g_below < g_here THEN 1 + g_below ELSE g_here

\* Phase 1 on one column: col is the mask column, row -> int8.
Phase1Column(col, nr, inf) ==
    LET fwd[r \in 0 .. nr - 1] ==
            IF r = 0 THEN GBaseCase(col[0], inf)
            ELSE GForwardCell(col[r], fwd[r - 1])
        bwd[r \in 0 .. nr - 1] ==
            IF r = nr - 1 THEN fwd[r]
            ELSE GBackwardCell(fwd[r], bwd[r + 1])
    IN  bwd

\* win_xsize of the phase-1 strip at xoff.
Phase1Win(xo, bx, nc) == IF xo + bx > nc THEN nc - xo ELSE bx

\* A phase-1 loop that breaks after its first strip.
Phase1LastAlways(xo, bx, nc) == TRUE
\* Whether the phase-1 loop ends after the strip at xoff: `done` was set, or
\* numpy.arange(0, n_cols, block_xsize) is exhausted.
Phase1Last(xo, bx, nc) == (xo + bx > nc) \/ (xo + bx >= nc)

\* win_ysize of the phase-2 strip at yoff.
Phase2Win(yo, by, nr) == IF yo + by >= nr THEN nr - yo ELSE by

\* The test of phase 1 (>) in the place of the test of phase 2 (>=).
Phase2LastStrict(yo, by, nr) == yo + by > nr
\* Whether the phase-2 loop ends after the strip at yoff.
Phase2Last(yo, by, nr) == yo + by >= nr

\* gu = g_block[local_y_index, u_index]**2
Sq(k) == k * k

\* The test of the while loop of the forward scan: the parabola of the column
\* on top of the stack is not above the parabola of u at t[q].
EnvelopeKeeps(tq, sq, gsq, u, gu) == Sq(tq - sq) + gsq <= Sq(tq - u) + gu

\* while (q_index >= 0): ... q_index -= 1.  The value of q_index on exit.
RECURSIVE PopWhile(_, _, _, _, _)
PopWhile(g, s, t, q, u) ==
    IF q < 0 THEN q
    ELSE IF EnvelopeKeeps(t[q], s[q], Sq(g[s[q]]), u, Sq(g[u])) THEN q
         ELSE PopWhile(g, s, t, q - 1, u)

\* w = 1 + (u_index**2 - sq**2 + gu - gsq) / (2*(u_index-sq))
Intersection(u, sq, gu, gsq) ==
    1 + CDiv(Sq(u) - Sq(sq) + gu - gsq, 2 * (u - sq))

\* for u_index in range(1, n_cols): the stacks after the forward scan of the
\* row g (column -> int32), from column u on.
RECURSIVE ForwardScan(_, _, _, _, _, _)
ForwardScan(g, nc, u, q, s, t) ==
    IF u >= nc THEN [q |-> q, s |-> s, t |-> t]
    ELSE LET q1 == PopWhile(g, s, t, q, u) IN
         IF q1 < 0
         THEN ForwardScan(g, nc, u + 1, 0, (0 :> u) @@ s, t)
         ELSE LET w == Intersection(u, s[q1], Sq(g[u]), Sq(g[s[q1]])) IN
              IF w < nc
              THEN ForwardScan(g, nc, u + 1, q1 + 1,
                               ((q1 + 1) :> u) @@ s, ((q1 + 1) :> w) @@ t)
              ELSE ForwardScan(g, nc, u + 1, q1, s, t)

\* for u_index in range(n_cols-1, -1, -1): dt of the row, from column u down.
\* sq, gsq and tq are the locals of the code: they keep their last values
\* when q_index drops below 0.
RECURSIVE BackwardScan(_, _, _, _, _, _, _, _, _)
BackwardScan(g, s, t, u, q, sq, gsq, tq, dt) ==
    IF u < 0 THEN dt
    ELSE LET dt1 == (u :> (Sq(u - sq) + gsq)) @@ dt IN
         IF u = tq
         THEN IF q - 1 >= 0
              THEN BackwardScan(g, s, t, u - 1, q - 1, s[q - 1],
                                Sq(g[s[q - 1]]), t[q - 1], dt1)
              ELSE BackwardScan(g, s, t, u - 1, q - 1, sq, gsq, tq, dt1)
         ELSE BackwardScan(g, s, t, u - 1, q, sq, gsq, tq, dt1)

\* One row of phase 2 (lines 160-195): the squared distances of the row and
\* the stacks as the row leaves them.  s0 and t0 are the stacks as the
\* previous row left them.
Phase2Row(g, nc, s0, t0) ==
    LET f == ForwardScan(g, nc, 1, 0, (0 :> 0) @@ s0, (0 :> 0) @@ t0)
        dt == BackwardScan(g, f.s, f.t, nc - 1, f.q, f.s[f.q],
                           Sq(g[f.s[f.q]]), f.t[f.q], <<>>)
    IN  [dt |-> dt, s |-> f.s, t |-> f.t]

\* valid_mask = g_block != NODATA; dt[valid_mask] = numpy.sqrt(dt[valid_mask]);
\* dt[~valid_mask] = NODATA
DistanceValue(g, d) == IF g # NODATA THEN FSqrt(d) ELSE FNodata

\* The mask strip read at xoff into the int8 buffer mask_block.
ReadMaskColumn(mask, c, nr) == [r \in 0 .. nr - 1 |-> ByteToInt8(mask[<<r, c>>])]

\* g_band.WriteArray / target_distance_band.WriteArray: the raster with the
\* cells of block overwritten.
WriteArray(raster, block) ==
    [p \in DOMAIN raster \cup DOMAIN block |->
        IF p \in DOMAIN block THEN block[p] ELSE raster[p]]

\* g_band.ReadAsArray of the rows y .. y+win-1: a cell never written reads as
\* fill.
ReadGRow(g, r, nc, fill) ==
    [c \in 0 .. nc - 1 |-> IF <<r, c>> \in DOMAIN g THEN g[<<r, c>>] ELSE fill]

\* for local_y_index in range(win_ysize): the rows r .. last of the strip.
RECURSIVE Phase2Rows(_, _, _, _, _, _, _, _)
Phase2Rows(g, r, last, nc, fill, s, t, out) ==
    IF r > last THEN [out |-> out, s |-> s, t |-> t]
    ELSE LET grow == ReadGRow(g, r, nc, fill)
             row == Phase2Row(grow, nc, s, t)
             block == [p \in {r} \X (0 .. nc - 1) |->
                          DistanceValue(grow[p[2]], row.dt[p[2]])]
         IN  Phase2Rows(g, r + 1, last, nc, fill, row.s, row.t,
                        WriteArray(out, block))

\* The window of one strip: xoff and win_xsize of ReadAsArray / WriteArray in
\* phase 1 (lines 108-110, 127), yoff and win_ysize in phase 2 (lines
\* 157-159, 200).
Strip(phase, off, win) == [phase |-> phase, off |-> off, win |-> win]

\* Lines 66-82: the temporary mask raster is created and filled by
\* raster_calculator with MaskWrapper(base_nodata).
MakeMask ==
    /\ epc = "start"
    /\ tmp_created' = tmp_created \cup {"base_mask_path"}
    /\ mask_raster' = LET m == MaskWrapper(base_nodata, base_raster)
                      IN  [p \in DOMAIN m |-> Int8ToByte(m[p])]
    /\ epc' = "mask"
    /\ UNCHANGED strips
    /\ UNCHANGED notEdtVars
    /\ UNCHANGED <<base_raster, base_nodata, n_rows, n_cols, block_xsize,
                   block_ysize, g_raster, g_flushed, g_read, target_raster,
                   xoff, yoff, s_array, t_array, tmp_removed, warnings>>

\* Lines 84-101: the temporary raster G is created, nothing written to it.
MakeG ==
    /\ epc = "mask"
    /\ tmp_created' = tmp_created \cup {"g_path"}
    /\ g_raster' = <<>>
    /\ xoff' = 0
    /\ epc' = "phase1"
    /\ UNCHANGED strips
    /\ UNCHANGED notEdtVars
    /\ UNCHANGED <<base_raster, base_nodata, n_rows, n_cols, block_xsize,
                   block_ysize, mask_raster, g_flushed, g_read, target_raster,
                   yoff, s_array, t_array, tmp_removed, warnings>>

\* Lines 102-129: one iteration of the phase-1 loop.
Phase1Strip ==
    /\ epc = "phase1"
    /\ LET win_xsize == Phase1Win(xoff, block_xsize, n_cols)
           numerical_inf == NumericalInf(n_rows, n_cols)
           g_block == [p \in (0 .. n_rows - 1) \X (xoff .. xoff + win_xsize - 1) |->
                          Phase1Column(ReadMaskColumn(mask_raster, p[2], n_rows),
                                       n_rows, numerical_inf)[p[1]]]
       IN  /\ g_raster' = WriteArray(g_raster, g_block)
           /\ strips' = Append(strips, Strip(1, xoff, win_xsize))
           /\ IF Phase1Last(xoff, block_xsize, n_cols)
              THEN epc' = "flush" /\ xoff' = xoff
              ELSE epc' = "phase1" /\ xoff' = xoff + block_xsize
    /\ UNCHANGED notEdtVars
    /\ UNCHANGED <<base_raster, base_nodata, n_rows, n_cols, block_xsize,
                   block_ysize, mask_raster, g_flushed, g_read, target_raster,
                   yoff, s_array, t_array, tmp_created, tmp_removed, warnings>>

\* g_band.FlushCache(): every cell written so far is durable.
FlushCache(raster) == DOMAIN raster

\* Lines 130-148: G is flushed, the target raster is created, the stacks are
\* allocated.
FlushG ==
    /\ epc = "flush"
    /\ g_flushed' = FlushCache(g_raster)
    /\ target_raster' = <<>>
    /\ s_array' = <<>>
    /\ t_array' = <<>>
    /\ yoff' = 0
    /\ epc' = "phase2"
    /\ UNCHANGED strips
    /\ UNCHANGED notEdtVars
    /\ UNCHANGED <<base_raster, base_nodata, n_rows, n_cols, block_xsize,
                   block_ysize, mask_raster, g_raster, g_read, xoff,
                   tmp_created, tmp_removed, warnings>>

\* Lines 149-205: one iteration of the phase-2 loop.
Phase2Strip ==
    /\ epc = "phase2"
    /\ \E fill \in {0, NODATA} :
         LET win_ysize == Phase2Win(yoff, block_ysize, n_rows)
             res == Phase2Rows(g_raster, yoff, yoff + win_ysize - 1, n_cols,
                               fill, s_array, t_array, <<>>)
         IN  /\ g_read' = g_read \cup
                    ((yoff .. yoff + win_ysize - 1) \X (0 .. n_cols - 1))
             /\ target_raster' = WriteArray(target_raster, res.out)
             /\ strips' = Append(strips, Strip(2, yoff, win_ysize))
             /\ s_array' = res.s
             /\ t_array' = res.t
    /\ IF Phase2Last(yoff, block_ysize, n_rows)
       THEN epc' = "cleanup" /\ yoff' = yoff
       ELSE epc' = "phase2" /\ yoff' = yoff + block_ysize
    /\ UNCHANGED notEdtVars
    /\ UNCHANGED <<base_raster, base_nodata, n_rows, n_cols, block_xsize,
                   block_ysize, mask_raster, g_raster, g_flushed, xoff,
                   tmp_created, tmp_removed, warnings>>

\* The temporary files os.remove is called on after phase 2.
RemovedAtCleanup == {"g_path"}

\* Lines 207-214: the rasters are closed and g_path is removed; an OSError
\* of os.remove is logged and swallowed.
Cleanup ==
    /\ epc = "cleanup"
    /\ tmp_removed' = tmp_removed \cup RemovedAtCleanup
    /\ \E failed \in SUBSET RemovedAtCleanup : warnings' = warnings \cup failed
    /\ epc' = "done"
    /\ UNCHANGED strips
    /\ UNCHANGED notEdtVars
    /\ UNCHANGED <<base_raster, base_nodata, n_rows, n_cols, block_xsize,
                   block_ysize, mask_raster, g_raster, g_flushed, g_read,
                   target_raster, xoff, yoff, s_array, t_array, tmp_created>>

\* The rasters distance_transform_edt is called on.
Shapes == {sh \in (1 .. MaxCells) \X (1 .. MaxCells) : sh[1] * sh[2] <= MaxCells}

\* The transform is not running.
EdtIdle ==
    /\ epc = "idle"
    /\ base_raster = <<>>
    /\ base_nodata = NODATA
    /\ n_rows = 0
    /\ n_cols = 0
    /\ block_xsize = 0
    /\ block_ysize = 0
    /\ mask_raster = <<>>
    /\ g_raster = <<>>
    /\ g_flushed = {}
    /\ g_read = {}
    /\ target_raster = <<>>
    /\ xoff = 0
    /\ yoff = 0
    /\ s_array = <<>>
    /\ t_array = <<>>
    /\ tmp_created = {}
    /\ tmp_removed = {}
    /\ warnings = {}
    /\ strips = <<>>

EdtInit ==
    /\ epc = "start"
    /\ \E sh \in Shapes :
         /\ n_rows = sh[1]
         /\ n_cols = sh[2]
         /\ base_raster \in [Cells(sh[1], sh[2]) -> EdtPixels]
    /\ base_nodata \in EdtNodata
    /\ block_xsize \in 1 .. MaxBlock
    /\ block_ysize \in 1 .. MaxBlock
    /\ mask_raster = <<>>
    /\ g_raster = <<>>
    /\ g_flushed = {}
    /\ g_read = {}
    /\ target_raster = <<>>
    /\ xoff = 0
    /\ yoff = 0
    /\ s_array = <<>>
    /\ t_array = <<>>
    /\ tmp_created = {}
    /\ tmp_removed = {}
    /\ warnings = {}
    /\ strips = <<>>

EdtNext ==
    \/ MakeMask
    \/ MakeG
    \/ Phase1Strip
    \/ FlushG
    \/ Phase2Strip
    \/ Cleanup

\* ------------------------------------------------------------ stats_worker

\* Largest number of samples of one block.
MaxBlockLen == 2
\* Largest number of blocks the producer pushes before the marker.
MaxBlocks == 2
\* Capacity of the bounded work queue.
QueueCap == 1

\* The samples the producer draws from.
Samples == {-1, 2}

\* The element of a singleton set.  {e(v) : v \in {arg}} has arg evaluated
\* once, whatever the number of occurrences of v in e.
The(S) == CHOOSE v \in S : TRUE

\* Exact arithmetic: a rational is [num, den] in lowest terms, den > 0.
Abs(k) == IF k < 0 THEN -k ELSE k
RECURSIVE Gcd(_, _)
Gcd(a, b) ==
    The({IF b0 = 0 THEN a0 ELSE Gcd(b0, a0 % b0) : a0 \in {a}, b0 \in {b}})
Rat(a, b) ==
    The({[num |-> (IF b0 < 0 THEN -1 ELSE 1) * (a0 \div k),
          den |-> (IF b0 < 0 THEN -1 ELSE 1) * (b0 \div k)] :
         a0 \in {a}, b0 \in {b}, k \in {Gcd(Abs(a), Abs(b))}})
RInt(k) == [num |-> k, den |-> 1]
RAdd(p, q) ==
    The({Rat(a.num * b.den + b.num * a.den, a.den * b.den) : a \in {p}, b \in {q}})
RSub(p, q) ==
    The({Rat(a.num * b.den - b.num * a.den, a.den * b.den) : a \in {p}, b \in {q}})
RMul(p, q) == The({Rat(a.num * b.num, a.den * b.den) : a \in {p}, b \in {q}})
RDivInt(p, k) == The({Rat(a.num, a.den * k) : a \in {p}})
RLess(p, q) == The({a.num * b.den < b.num * a.den : a \in {p}, b \in {q}})

\* The payloads of the queues.
None == [kind |-> "none", data |-> <<>>]
Malformed == [kind |-> "bad", data |-> <<>>]
Block(samples) == [kind |-> "block", data |-> samples]
Fault == [kind |-> "exception", data |-> <<>>]
\* (min_value, max_value, M_local, (S_local / <double>n) ** 0.5)
StatsTuple(mn, mx, mean, variance) ==
    [kind |-> "stats", data |-> <<mn, mx, mean, FSqrt(variance)>>]

RECURSIVE SeqsUpTo(_, _)
SeqsUpTo(S, k) ==
    IF k = 0 THEN {<<>>}
    ELSE LET shorter == SeqsUpTo(S, k - 1)
         IN  shorter \cup {Append(q, e) : q \in shorter, e \in S}
WellFormedBlocks == {Block(q) : q \in SeqsUpTo(Samples, MaxBlockLen)}

\* The worker's locals, as a record.
Locals == [n |-> n, M |-> M_local, S |-> S_local, min |-> min_value,
           max |-> max_value, x |-> x, div |-> divisors]

\* A min/max update that never raises the maximum.
UpdateMinOnly(st, v) == IF RLess(v, st.min) THEN [st EXCEPT !.min = v] ELSE st
\* min/max update of lines 518-521.
UpdateMinMax(st, v) ==
    The({IF RLess(v, s0.min) THEN [s0 EXCEPT !.min = v]
         ELSE IF RLess(s0.max, v) THEN [s0 EXCEPT !.max = v]
         ELSE s0 : s0 \in {st}})

\* An update of S_local with the old mean in both factors.
ConsumeSampleOldMean(st, v) ==
    LET n1 == st.n + 1
        xv == RInt(v)
    IN  IF n1 = 1
        THEN [st EXCEPT !.n = n1, !.x = xv, !.M = xv, !.S = RInt(0),
                        !.min = xv, !.max = xv]
        ELSE LET M_last == st.M IN
             The({UpdateMinMax(
                      [st EXCEPT !.n = n1, !.x = xv, !.M = M_new,
                                 !.S = RAdd(st.S, RMul(RSub(xv, M_last),
                                                       RSub(xv, M_last))),
                                 !.div = st.div \cup {n1}], xv) :
                  M_new \in {RAdd(st.M, RDivInt(RSub(xv, st.M), n1))}})

\* Lines 504-521: one sample.
ConsumeSample(st, v) ==
    LET n1 == st.n + 1
        xv == RInt(v)
    IN  IF n1 = 1
        THEN [st EXCEPT !.n = n1, !.x = xv, !.M = xv, !.S = RInt(0),
                        !.min = xv, !.max = xv]
        ELSE LET M_last == st.M IN
             The({UpdateMinMax(
                      [st EXCEPT !.n = n1, !.x = xv, !.M = M_new,
                                 !.S = RAdd(st.S, RMul(RSub(xv, M_last),
                                                       RSub(xv, M_new))),
                                 !.div = st.div \cup {n1}], xv) :
                  M_new \in {RAdd(st.M, RDivInt(RSub(xv, st.M), n1))}})

\* for i in range(n_elements): the samples of one block, from index i on.
RECURSIVE ConsumeBlock(_, _, _)
ConsumeBlock(st, block, i) ==
    IF i > Len(block) THEN st
    ELSE The({ConsumeBlock(ConsumeSample(s0, block[i]), block, i + 1) :
              s0 \in {st}})

\* A finalisation without the test of n.
FinalizeUnguarded(st) ==
    [put |-> StatsTuple(st.min, st.max, st.M, st.S), div |-> {st.n}]
\* Lines 523-529: what the worker puts on the queue after the marker, and the
\* count it divides by.
Finalize(st) ==
    IF st.n > 0
    THEN [put |-> StatsTuple(st.min, st.max, st.M, RDivInt(st.S, st.n)),
          div |-> {st.n}]
    ELSE [put |-> None, div |-> {}]

\* A loop that does not break on the marker.
AfterPayloadNoBreak(kind) ==
    IF kind \in {"none", "block"} THEN "get" ELSE "except"
\* Lines 497-500: where the worker goes with the payload it got: out of the
\* loop on the marker, round the loop on a block, to the except branch when
\* astype raises on a malformed payload.
AfterPayload(kind) ==
    IF kind = "none" THEN "emit"
    ELSE IF kind = "block" THEN "get"
    ELSE "except"

\* Lines 496-521: one iteration of the while loop.
WorkerGet ==
    /\ wpc = "get"
    /\ stats_work_queue # <<>>
    /\ LET got == Head(stats_work_queue)
           st == IF got.kind = "block"
                 THEN ConsumeBlock(Locals, got.data, 1)
                 ELSE Locals
       IN  /\ payload' = got
           /\ wpc' = AfterPayload(got.kind)
           /\ n' = st.n
           /\ M_local' = st.M
           /\ S_local' = st.S
           /\ min_value' = st.min
           /\ max_value' = st.max
           /\ x' = st.x
           /\ divisors' = st.div
           /\ consumed' = IF got.kind = "block" THEN consumed \o got.data
                          ELSE consumed
           /\ blocks_got' = IF got.kind = "block" THEN blocks_got + 1
                            ELSE blocks_got
    /\ stats_work_queue' = Tail(stats_work_queue)
    /\ gets' = gets + 1
    /\ UNCHANGED <<exception_queue, todo, ppc, blocks_put, emitted, bad_pushed>>
    /\ UNCHANGED notStatsVars

\* Lines 523-529: the result is put on the work queue; put blocks while the
\* queue is full.
WorkerEmit ==
    /\ wpc = "emit"
    /\ Len(stats_work_queue) < QueueCap
    /\ LET f == Finalize(Locals) IN
         /\ stats_work_queue' = Append(stats_work_queue, f.put)
         /\ emitted' = Append(emitted, f.put)
         /\ divisors' = divisors \cup f.div
    /\ wpc' = "done"
    /\ UNCHANGED <<exception_queue, payload, n, M_local, S_local, min_value,
                   max_value, x, todo, ppc, consumed, blocks_got, blocks_put,
                   gets, bad_pushed>>
    /\ UNCHANGED notStatsVars

\* exception_queue.put(e)
ReportFault(eq) == Append(eq, Fault)
\* An except branch that also answers on the result channel.
ReportNoneOnWorkQueue(wq) == Append(wq, None)
\* The except branch puts nothing on the work queue.
ReportOnWorkQueue(wq) == wq

\* Lines 530-533: the fault is logged and put on exception_queue.
WorkerExcept ==
    /\ wpc = "except"
    /\ exception_queue' = ReportFault(exception_queue)
    /\ LET wq == ReportOnWorkQueue(stats_work_queue)
       IN  /\ stats_work_queue' = wq
           /\ emitted' = emitted \o SubSeq(wq, Len(stats_work_queue) + 1, Len(wq))
    /\ wpc' = "drain"
    /\ UNCHANGED <<payload, n, M_local, S_local, min_value, max_value, x, todo,
                   ppc, consumed, blocks_got, blocks_put, gets, divisors,
                   bad_pushed>>
    /\ UNCHANGED notStatsVars

\* Lines 534-536: one test of the drain loop; the worker ends by re-raising
\* when it finds the queue empty.
WorkerDrain ==
    /\ wpc = "drain"
    /\ IF stats_work_queue # <<>>
       THEN /\ stats_work_queue' = Tail(stats_work_queue)
            /\ gets' = gets + 1
            /\ wpc' = "drain"
       ELSE /\ wpc' = "raised"
            /\ UNCHANGED <<stats_work_queue, gets>>
    /\ UNCHANGED <<exception_queue, payload, n, M_local, S_local, min_value,
                   max_value, x, todo, ppc, consumed, blocks_got, blocks_put,
                   emitted, divisors, bad_pushed>>
    /\ UNCHANGED notStatsVars

\* The producer pushes one block; put blocks while the queue is full.
ProducerPut ==
    /\ ppc = "pushing"
    /\ todo > 0
    /\ Len(stats_work_queue) < QueueCap
    /\ \E b \in WellFormedBlocks \cup {Malformed} :
         /\ stats_work_queue' = Append(stats_work_queue, b)
         /\ bad_pushed' = (bad_pushed \/ b.kind = "bad")
    /\ todo' = todo - 1
    /\ blocks_put' = blocks_put + 1
    /\ UNCHANGED <<wpc, exception_queue, payload, n, M_local, S_local,
                   min_value, max_value, x, ppc, consumed, blocks_got, gets,
                   emitted, divisors>>
    /\ UNCHANGED notStatsVars

\* The producer pushes the end-of-stream marker after its last block.
ProducerMarker ==
    /\ ppc = "pushing"
    /\ todo = 0
    /\ Len(stats_work_queue) < QueueCap
    /\ stats_work_queue' = Append(stats_work_queue, None)
    /\ ppc' = "done"
    /\ UNCHANGED <<wpc, exception_queue, payload, n, M_local, S_local,
                   min_value, max_value, x, todo, consumed, blocks_got,
                   blocks_put, gets, emitted, divisors, bad_pushed>>
    /\ UNCHANGED notStatsVars

\* Lines 484-492: the worker's locals as declared; no producer.
StatsIdle ==
    /\ wpc = "idle"
    /\ stats_work_queue = <<>>
    /\ exception_queue = <<>>
    /\ payload = None
    /\ n = 0
    /\ M_local = RInt(0)
    /\ S_local = RInt(0)
    /\ min_value = RInt(0)
    /\ max_value = RInt(0)
    /\ x = RInt(0)
    /\ todo = 0
    /\ ppc = "idle"
    /\ consumed = <<>>
    /\ blocks_got = 0
    /\ blocks_put = 0
    /\ gets = 0
    /\ emitted = <<>>
    /\ divisors = {}
    /\ bad_pushed = FALSE

StatsInit ==
    /\ wpc = "get"
    /\ stats_work_queue = <<>>
    /\ exception_queue = <<>>
    /\ payload = None
    /\ n = 0
    /\ M_local = RInt(0)
    /\ S_local = RInt(0)
    /\ min_value = RInt(0)
    /\ max_value = RInt(0)
    /\ x = RInt(0)
    /\ todo \in 0 .. MaxBlocks
    /\ ppc = "pushing"
    /\ consumed = <<>>
    /\ blocks_got = 0
    /\ blocks_put = 0
    /\ gets = 0
    /\ emitted = <<>>
    /\ divisors = {}
    /\ bad_pushed = FALSE

WorkerNext == WorkerGet \/ WorkerEmit \/ WorkerExcept \/ WorkerDrain
ProducerNext == ProducerPut \/ ProducerMarker

StatsNext ==
    \/ WorkerGet
    \/ WorkerEmit
    \/ WorkerExcept
    \/ WorkerDrain
    \/ ProducerPut
    \/ ProducerMarker

\* ------------------------------------------------- MaskWrapper.__call__

\* Largest number of cells of a window passed to MaskWrapper.__call__.
MaxWindowCells == 3

\* The values of the cells of the window; the nodata values of the band (7
\* is the nodata value of a band none of whose cells is nodata).
WindowPixels == {-1, 0, 1, 2}
WindowNodata == {0, 2, 7}
WindowShapes ==
    {sh \in (1 .. MaxWindowCells) \X (1 .. MaxWindowCells) :
        sh[1] * sh[2] <= MaxWindowCells}

\* MaskWrapper is not in use.
MaskIdle ==
    /\ mpc = "idle"
    /\ base_array = <<>>
    /\ self_base_nodata = NODATA
    /\ mask_result = <<>>

\* MaskWrapper(base_nodata) has been constructed, a window is at hand.
MaskInit ==
    /\ mpc = "constructed"
    /\ \E sh \in WindowShapes : base_array \in [Cells(sh[1], sh[2]) -> WindowPixels]
    /\ self_base_nodata \in WindowNodata
    /\ mask_result = <<>>

\* Lines 32-37: MaskWrapper.__call__(base_array).
MaskCall ==
    /\ mpc = "constructed"
    /\ mask_result' = MaskWrapper(self_base_nodata, base_array)
    /\ mpc' = "returned"
    /\ UNCHANGED <<base_array, self_base_nodata>>
    /\ UNCHANGED notMaskVars

MaskNext == MaskCall

\* --------------------------------------------------------- calculate_slope

\* Largest number of cells of an elevation raster, and the largest natural
\* block width / height of its band.
MaxDemCells == 4
MaxDemBlock == 2

\* Elevations are float64 values; the model takes them to be whole multiples
\* of one unit u.  slope_nodata = numpy.finfo(numpy.float32).min is the
\* finite float64 value -(2^24 - 1) * 2^104; with u = 5592405 * 2^104 (a
\* float64 too, as are its small multiples) it is -3 u.
SlopeNodataUnits == 3

\* The nodata value of the elevation band, the values of its cells (nodata
\* among them) and its pixel sizes (the y size of a north-up raster is
\* negative).
DemNodata == {-1}
DemPixels == {-1, 0, 1, 3}
CellSizes == {<<1, -2>>, <<2, -1>>}

\* A number r + i * 2**0.5 with r and i rational.  The products with 2**0.5
\* are exact here; the rounding of the float64 product is not modelled.
Root2(r, i) == [r |-> r, i |-> i]
Root2Int(k) == Root2(RInt(k), RInt(0))
Root2Add(u, v) == Root2(RAdd(u.r, v.r), RAdd(u.i, v.i))
\* k * 2**0.5
TimesRoot2(k) == Root2(RInt(0), RInt(k))
\* u / k
Root2DivInt(u, k) == Root2(RDivInt(u.r, k), RDivInt(u.i, k))
\* u ** 2
Root2Square(u) ==
    Root2(RAdd(RMul(u.r, u.r), RMul(RInt(2), RMul(u.i, u.i))),
          RMul(RInt(2), RMul(u.r, u.i)))
Root2Scale(k, u) == Root2(RMul(RInt(k), u.r), RMul(RInt(k), u.i))

\* cdef numpy.npy_float64 slope_nodata = numpy.finfo(numpy.float32).min
slope_nodata == Root2Int(-SlopeNodataUnits)

\* A value of slope_array: neg = FALSE stands for +sqrt(sq), neg = TRUE for
\* -sqrt(sq).  The narrowing to the Float32 band is not modelled.
SlopeNodataOut == [neg |-> TRUE, sq |-> Root2Int(SlopeNodataUnits * SlopeNodataUnits)]
\* 100.0 * numpy.sqrt(dzdx**2 + dzdy**2)
PercentSlope(dzdx, dzdy) ==
    [neg |-> FALSE,
     sq |-> Root2Scale(10000, Root2Add(Root2Square(dzdx), Root2Square(dzdy)))]

\* pygeoprocessing.iterblocks(path, offset_only=True): the blocks of the
\* band in raster order, the last of a row or column clipped to the raster.
IterBlocks(nr, nc, bx, by) ==
    LET nbx == (nc + bx - 1) \div bx
        nby == (nr + by - 1) \div by
    IN  [k \in 1 .. nbx * nby |->
            LET xo == ((k - 1) % nbx) * bx
                yo == ((k - 1) \div nbx) * by
            IN  [xoff |-> xo, yoff |-> yo,
                 win_xsize |-> IF xo + bx > nc THEN nc - xo ELSE bx,
                 win_ysize |-> IF yo + by > nr THEN nr - yo ELSE by]]

\* Lines 287-309: the block expanded by one pixel on every side that exists,
\* and the place of the expanded window in dem_array.
HaloWindowLeftTopOnly(bo, nr, nc) ==
    LET left == bo.xoff > 0
        top == bo.yoff > 0
    IN  [xoff |-> bo.xoff - BoolToInt8(left),
         yoff |-> bo.yoff - BoolToInt8(top),
         win_xsize |-> bo.win_xsize + BoolToInt8(left),
         win_ysize |-> bo.win_ysize + BoolToInt8(top),
         x_start |-> 1 - BoolToInt8(left),
         x_end |-> bo.win_xsize + 1,
         y_start |-> 1 - BoolToInt8(top),
         y_end |-> bo.win_ysize + 1]

HaloWindow(bo, nr, nc) ==
    LET left == bo.xoff > 0
        right == bo.xoff + bo.win_xsize < nc
        top == bo.yoff > 0
        bottom == bo.yoff + bo.win_ysize < nr
    IN  [xoff |-> bo.xoff - BoolToInt8(left),
         yoff |-> bo.yoff - BoolToInt8(top),
         win_xsize |-> bo.win_xsize + BoolToInt8(left) + BoolToInt8(right),
         win_ysize |-> bo.win_ysize + BoolToInt8(top) + BoolToInt8(bottom),
         x_start |-> 1 - BoolToInt8(left),
         x_end |-> bo.win_xsize + 1 + BoolToInt8(right),
         y_start |-> 1 - BoolToInt8(top),
         y_end |-> bo.win_ysize + 1 + BoolToInt8(bottom)]

\* Lines 311-327: dem_array, (win_ysize+2) x (win_xsize+2), filled with
\* dem_nodata and then read into at [y_start:y_end, x_start:x_end].
ReadDemArray(dem, nodata, bo, nr, nc) ==
    LET hw == HaloWindow(bo, nr, nc)
    IN  [p \in (0 .. bo.win_ysize + 1) \X (0 .. bo.win_xsize + 1) |->
            IF /\ p[1] >= hw.y_start /\ p[1] < hw.y_end
               /\ p[2] >= hw.x_start /\ p[2] < hw.x_end
            THEN dem[<<hw.yoff + (p[1] - hw.y_start),
                       hw.xoff + (p[2] - hw.x_start)>>]
            ELSE nodata]

\* What one direction adds to an accumulator and to its denominator factor.
Term(num, den) == [num |-> num, den |-> den]

\* Lines 354-369 (a - c), 382-397 (g - i), 399-414 (a - g), 427-442 (c - i):
\* the direction through the corners p and q, with m between them.
CornerDirectionIgnoringMiddle(p, m, q, e, nodata) ==
    IF p # nodata /\ q # nodata THEN Term(Root2Int(p - q), 2)
    ELSE IF p # nodata THEN Term(TimesRoot2(p - e), 1)
    ELSE IF q # nodata THEN Term(TimesRoot2(e - q), 1)
    ELSE Term(Root2Int(0), 0)

CornerDirection(p, m, q, e, nodata) ==
    IF p # nodata /\ q # nodata THEN Term(Root2Int(p - q), 2)
    ELSE IF p # nodata /\ m # nodata THEN Term(Root2Int(p - m), 1)
    ELSE IF m # nodata /\ q # nodata THEN Term(Root2Int(m - q), 1)
    ELSE IF p # nodata THEN Term(TimesRoot2(p - e), 1)
    ELSE IF q # nodata THEN Term(TimesRoot2(e - q), 1)
    ELSE Term(Root2Int(0), 0)

\* Lines 371-380 (d - f) and 416-425 (b - h): the direction through e.
MiddleDirectionUnparenthesised(p, q, e, nodata) ==
    IF p # nodata /\ q # nodata THEN Term(Root2Int(2 * p - q), 4)
    ELSE IF p # nodata THEN Term(Root2Int(2 * p - e), 2)
    ELSE IF q # nodata THEN Term(Root2Int(2 * e - q), 2)
    ELSE Term(Root2Int(0), 0)

MiddleDirection(p, q, e, nodata) ==
    IF p # nodata /\ q # nodata THEN Term(Root2Int(2 * (p - q)), 4)
    ELSE IF p # nodata THEN Term(Root2Int(2 * (p - e)), 2)
    ELSE IF q # nodata THEN Term(Root2Int(2 * (e - q)), 2)
    ELSE Term(Root2Int(0), 0)

\* Lines 341-442: the two accumulators and denominator factors at the cell
\* <<r, c>> of dem_array, whose elevation is not nodata.
Accumulate(arr, r, c, nodata) ==
    LET a == arr[<<r - 1, c - 1>>]
        b == arr[<<r - 1, c>>]
        cc == arr[<<r - 1, c + 1>>]
        d == arr[<<r, c - 1>>]
        e == arr[<<r, c>>]
        f == arr[<<r, c + 1>>]
        g == arr[<<r + 1, c - 1>>]
        h == arr[<<r + 1, c>>]
        i == arr[<<r + 1, c + 1>>]
        ac == CornerDirection(a, b, cc, e, nodata)
        df == MiddleDirection(d, f, e, nodata)
        gi == CornerDirection(g, h, i, e, nodata)
        ag == CornerDirection(a, d, g, e, nodata)
        bh == MiddleDirection(b, h, e, nodata)
        ci == CornerDirection(cc, f, i, e, nodata)
    IN  [dzdx_accumulator |-> Root2Add(Root2Add(ac.num, df.num), gi.num),
         x_denom_factor |-> ac.den + df.den + gi.den,
         dzdy_accumulator |-> Root2Add(Root2Add(ag.num, bh.num), ci.num),
         y_denom_factor |-> ag.den + bh.den + ci.den]

\* Lines 444-453: a derivative from its accumulator.
DerivativeNodataWhenEmpty(acc, denom_factor, cell_size) ==
    IF denom_factor # 0 THEN Root2DivInt(acc, denom_factor * cell_size)
    ELSE slope_nodata

Derivative(acc, denom_factor, cell_size) ==
    IF denom_factor # 0 THEN Root2DivInt(acc, denom_factor * cell_size)
    ELSE Root2Int(0)

\* Lines 336-340: the entry of dzdx_array for a cell whose elevation is
\* dem_nodata; its entry of dzdy_array is left as numpy.empty made it.
Guard(e, nodata) == e = nodata

\* Lines 336-453: the entries of dzdx_array and dzdy_array for the cell
\* <<r, c>> of dem_array.
Derivatives(arr, r, c, nodata, xcs, ycs) ==
    IF Guard(arr[<<r, c>>], nodata) THEN [x |-> slope_nodata]
    ELSE LET acc == Accumulate(arr, r, c, nodata)
         IN  [x |-> Derivative(acc.dzdx_accumulator, acc.x_denom_factor, xcs),
              y |-> Derivative(acc.dzdy_accumulator, acc.y_denom_factor, ycs)]

\* Lines 454-458: valid_mask and the entry of slope_array.
SlopeValue(dz) ==
    IF dz.x # slope_nodata THEN PercentSlope(dz.x, dz.y) ELSE SlopeNodataOut

\* Lines 329-458: slope_array for the block bo, keyed by the cells of the
\* raster it is written to (xoff = bo.xoff, yoff = bo.yoff).
SlopeArray(arr, bo, nodata, xcs, ycs) ==
    [p \in (bo.yoff .. bo.yoff + bo.win_ysize - 1)
           \X (bo.xoff .. bo.xoff + bo.win_xsize - 1) |->
        SlopeValue(Derivatives(arr, p[1] - bo.yoff + 1, p[2] - bo.xoff + 1,
                               nodata, xcs, ycs))]

\* Lines 278-286: the target raster is created filled with slope_nodata and
\* the iteration over the blocks begins.
SlopeCreate ==
    /\ spc = "start"
    /\ target_slope_raster' =
           [p \in Cells(dem_n_rows, dem_n_cols) |-> SlopeNodataOut]
    /\ block_offsets' =
           IterBlocks(dem_n_rows, dem_n_cols, dem_block_xsize, dem_block_ysize)
    /\ spc' = "blocks"
    /\ UNCHANGED <<dem_raster, dem_nodata, x_cell_size, y_cell_size,
                   dem_n_rows, dem_n_cols, dem_block_xsize, dem_block_ysize,
                   block_offset, dem_array, slope_writes>>
    /\ UNCHANGED notSlopeVars

\* Lines 285-461: one pass of the loop over the blocks.
SlopeBlock ==
    /\ spc = "blocks"
    /\ block_offsets # <<>>
    /\ LET bo == Head(block_offsets)
           arr == ReadDemArray(dem_raster, dem_nodata, bo, dem_n_rows, dem_n_cols)
           slope_array == SlopeArray(arr, bo, dem_nodata, x_cell_size, y_cell_size)
       IN  /\ block_offset' = bo
           /\ dem_array' = arr
           /\ target_slope_raster' = WriteArray(target_slope_raster, slope_array)
           /\ slope_writes' =
                  [p \in DOMAIN slope_writes \cup DOMAIN slope_array |->
                      (IF p \in DOMAIN slope_writes THEN slope_writes[p] ELSE 0)
                      + (IF p \in DOMAIN slope_array THEN 1 ELSE 0)]
    /\ block_offsets' = Tail(block_offsets)
    /\ UNCHANGED <<spc, dem_raster, dem_nodata, x_cell_size, y_cell_size,
                   dem_n_rows, dem_n_cols, dem_block_xsize, dem_block_ysize>>
    /\ UNCHANGED notSlopeVars

\* Lines 463-468: the iteration is over, the bands and rasters are closed.
SlopeClose ==
    /\ spc = "blocks"
    /\ block_offsets = <<>>
    /\ spc' = "done"
    /\ UNCHANGED <<dem_raster, dem_nodata, x_cell_size, y_cell_size,
                   dem_n_rows, dem_n_cols, dem_block_xsize, dem_block_ysize,
                   block_offsets, block_offset, dem_array,
                   target_slope_raster, slope_writes>>
    /\ UNCHANGED notSlopeVars

\* calculate_slope is not running.
SlopeIdle ==
    /\ spc = "idle"
    /\ dem_raster = <<>>
    /\ dem_nodata = 0
    /\ x_cell_size = 1
    /\ y_cell_size = 1
    /\ dem_n_rows = 0
    /\ dem_n_cols = 0
    /\ dem_block_xsize = 0
    /\ dem_block_ysize = 0
    /\ block_offsets = <<>>
    /\ block_offset = None
    /\ dem_array = <<>>
    /\ target_slope_raster = <<>>
    /\ slope_writes = <<>>

\* The state calculate_slope starts in, but for the elevation raster.
SlopeStart ==
    /\ spc = "start"
    /\ dem_nodata \in DemNodata
    /\ \E cs \in CellSizes : x_cell_size = cs[1] /\ y_cell_size = cs[2]
    /\ dem_block_xsize \in 1 .. MaxDemBlock
    /\ dem_block_ysize \in 1 .. MaxDemBlock
    /\ block_offsets = <<>>
    /\ block_offset = None
    /\ dem_array = <<>>
    /\ target_slope_raster = <<>>
    /\ slope_writes = <<>>

\* The elevation rasters calculate_slope is called on.
DemShapes ==
    {sh \in (1 .. MaxDemCells) \X (1 .. MaxDemCells) : sh[1] * sh[2] <= MaxDemCells}

SlopeInit ==
    /\ SlopeStart
    /\ \E sh \in DemShapes :
         /\ dem_n_rows = sh[1]
         /\ dem_n_cols = sh[2]
         /\ dem_raster \in [Cells(sh[1], sh[2]) -> DemPixels]

SlopeNext == SlopeCreate \/ SlopeBlock \/ SlopeClose

\* Elevation rasters that are linear ramps: the largest side of the raster
\* and the largest gradient, in units per pixel.
MaxRampSide == 3
MaxGradient == 3
RampBases == {0, 1}
RampGradients == (-MaxGradient) .. MaxGradient
RampShapes == (3 .. MaxRampSide) \X (3 .. MaxRampSide)
\* elevation(r, c) = k + gx*c + gy*r
Ramp(nr, nc, k, gx, gy) == [p \in Cells(nr, nc) |-> k + gx * p[2] + gy * p[1]]

RampInit ==
    /\ SlopeStart
    /\ \E sh \in RampShapes, k \in RampBases, gx, gy \in RampGradients :
         /\ dem_n_rows = sh[1]
         /\ dem_n_cols = sh[2]
         /\ dem_raster = Ramp(sh[1], sh[2], k, gx, gy)

\* ------------------------------------------------------- specifications

MaskSpecInit == MaskInit /\ EdtIdle /\ StatsIdle /\ SlopeIdle

SpecMask == MaskSpecInit /\ [][MaskNext]_vars

StatsSpecInit == StatsInit /\ EdtIdle /\ MaskIdle /\ SlopeIdle

SpecStats == StatsSpecInit /\ [][StatsNext]_vars

\* The worker and the producer are threads that the scheduler runs whenever
\* they are not blocked on the queue.
FairSpecStats ==
    SpecStats /\ WF_vars(WorkerNext) /\ WF_vars(ProducerNext)

EdtSpecInit == EdtInit /\ StatsIdle /\ MaskIdle /\ SlopeIdle

SpecEDT == EdtSpecInit /\ [][EdtNext]_vars

SlopeSpecInit == SlopeInit /\ EdtIdle /\ StatsIdle /\ MaskIdle

SpecSlope == SlopeSpecInit /\ [][SlopeNext]_vars

RampSpecInit == RampInit /\ EdtIdle /\ StatsIdle /\ MaskIdle

SpecRamp == RampSpecInit /\ [][SlopeNext]_vars

\* ------------------------------------------ claims on distance_transform_edt

\* The mask of the source raster, as the mask builder defines it.
MaskOf(p) == MaskWrapper(base_nodata, base_raster)[p]
AllCells == Cells(n_rows, n_cols)
ForegroundCells == {p \in AllCells : MaskOf(p) = 1}
BackgroundCells == {p \in AllCells : MaskOf(p) = 0}
NodataCells == {p \in AllCells : base_raster[p] = base_nodata}

SqDist(p, q) == Sq(p[1] - q[1]) + Sq(p[2] - q[2])
\* The squared Euclidean distance from p to the nearest cell of S (S not empty).
MinSqDist(p, S) ==
    CHOOSE d \in {SqDist(p, q) : q \in S} : \A q \in S : d <= SqDist(p, q)

\* C1: when the transform has ended on a mask over {0, 1} with at least one 0
\* pixel, the value of the distance raster at every foreground pixel (mask 1)
\* is the Euclidean distance to the nearest background pixel (mask 0).
C1_ForegroundGetsDistanceToBackground ==
    (epc = "done" /\ NodataCells = {} /\ BackgroundCells # {}) =>
        \A p \in ForegroundCells :
            target_raster[p] = FSqrt(MinSqDist(p, BackgroundCells))

\* C2: when the transform has ended, every pixel whose source value is the
\* source nodata value holds the output nodata value (-1) in the distance
\* raster.
C2_NodataPixelsGetNodata ==
    epc = "done" => \A p \in NodataCells : target_raster[p] = FNodata

\* C9: phase 2 reads G only when every cell of G has been written by phase 1
\* and flushed, and G is not written once phase 2 has read from it.
C9_PhaseBarrier ==
    /\ [](g_read # {} => (DOMAIN g_raster = AllCells /\ g_flushed = AllCells))
    /\ [][(g_read' # {}) => (g_raster' = g_raster)]_vars

\* Phase 2 has read G in a run whose phase 1 took several strips, the last
\* one narrower than the block.
C9_Witness ==
    /\ g_read # {}
    /\ block_xsize < n_cols
    /\ n_cols % block_xsize # 0

\* C10: when the transform has ended, os.remove has been called on every
\* temporary file the invocation created (the mask raster and G).
C10_TemporaryFilesRemoved == epc = "done" => tmp_created \subseteq tmp_removed

\* The transform as a function of the source band: the mask, phase 1 on
\* every column, phase 2 on every row.
MaskBytes(raster, nodata) ==
    LET m == MaskWrapper(nodata, raster) IN [p \in DOMAIN m |-> Int8ToByte(m[p])]
Phase1Raster(raster, nodata, nr, nc) ==
    [p \in Cells(nr, nc) |->
        Phase1Column(ReadMaskColumn(MaskBytes(raster, nodata), p[2], nr),
                     nr, NumericalInf(nr, nc))[p[1]]]
Phase2Raster(g, nr, nc) == Phase2Rows(g, 0, nr - 1, nc, NODATA, <<>>, <<>>, <<>>).out
DistanceTransform(raster, nodata, nr, nc) ==
    Phase2Raster(Phase1Raster(raster, nodata, nr, nc), nr, nc)

Rotate180(raster, nr, nc) ==
    [p \in Cells(nr, nc) |-> raster[<<nr - 1 - p[1], nc - 1 - p[2]>>]]
Phase1Done == epc \in {"flush", "phase2", "cleanup", "done"}
ForegroundRows(c) == {r \in 0 .. n_rows - 1 : MaskOf(<<r, c>>) = 1}
MinOf(S) == CHOOSE v \in S : \A w \in S : v <= w

\* C16: the distances of the source rotated by 180 degrees are the
\* distances of the source, rotated by 180 degrees.
C16_RotationSymmetry ==
    epc = "done" =>
        DistanceTransform(Rotate180(base_raster, n_rows, n_cols), base_nodata,
                          n_rows, n_cols)
            = Rotate180(target_raster, n_rows, n_cols)

\* C17: after phase 1, in a column with a foreground (mask = 1) cell, G at
\* row r is the least |r - r'| over the foreground rows r' of the column.
C17_ColumnDistance ==
    Phase1Done =>
        \A c \in 0 .. n_cols - 1 :
            ForegroundRows(c) # {} =>
                \A r \in 0 .. n_rows - 1 :
                    g_raster[<<r, c>>] = MinOf({Abs(r - f) : f \in ForegroundRows(c)})

\* C18: after phase 1, every cell of a column without a foreground cell
\* holds numerical_inf = width + height, which exceeds every distance
\* between two cells of the raster.
C18_SentinelColumn ==
    Phase1Done =>
        /\ \A c \in 0 .. n_cols - 1 :
               ForegroundRows(c) = {} =>
                   \A r \in 0 .. n_rows - 1 :
                       g_raster[<<r, c>>] = NumericalInf(n_rows, n_cols)
        /\ \A p, q \in AllCells :
               SqDist(p, q) < Sq(NumericalInf(n_rows, n_cols))

\* C19: after phase 1, G at every cell whose source is not nodata is what
\* phase 1 gives for the source with every nodata cell replaced by 0.
NodataAsBackground ==
    [p \in AllCells |-> IF base_raster[p] = base_nodata THEN 0 ELSE base_raster[p]]
C19_NodataNeverForeground ==
    Phase1Done =>
        \A p \in AllCells \ NodataCells :
            g_raster[p] = Phase1Raster(NodataAsBackground, base_nodata,
                                       n_rows, n_cols)[p]

\* C20: the square of the distance written at <<row, u>> is the least
\* (u - v)^2 + G[row, v]^2 over the columns v, and with a foreground cell
\* in the raster it is the squared distance to the nearest foreground cell.
LowerEnvelope(row, u) ==
    MinOf({Sq(u - v) + Sq(g_raster[<<row, v>>]) : v \in 0 .. n_cols - 1})
C20_LowerEnvelope ==
    epc = "done" =>
        \A p \in AllCells :
            /\ ~target_raster[p].neg
            /\ target_raster[p].sq = LowerEnvelope(p[1], p[2])
            /\ ForegroundCells # {} =>
                   target_raster[p].sq = MinSqDist(p, ForegroundCells)

\* The strips of one phase, and the strips of a phase that cover the column
\* (phase 1) or row (phase 2) k.
StripsOf(phase) == {i \in DOMAIN strips : strips[i].phase = phase}
Covering(phase, k) ==
    {i \in StripsOf(phase) :
        strips[i].off <= k /\ k < strips[i].off + strips[i].win}
Extent(phase) == IF phase = 1 THEN n_cols ELSE n_rows
ReachesEdge(i) == strips[i].off + strips[i].win = Extent(strips[i].phase)
Covered(phase) == {k \in 0 .. Extent(phase) - 1 : Covering(phase, k) # {}}

\* C23: every strip window is non-empty and lies inside the raster; no
\* column is in two phase-1 strips and no row in two phase-2 strips; a loop
\* goes on only while no strip of it has reached the raster edge, and when
\* it has ended its last strip has, and every column (row) is in exactly
\* one strip; the cells written to G and to the target, and the cells read
\* from G, are those of the strips.
C23_StripCoverage ==
    /\ \A i \in DOMAIN strips :
           /\ strips[i].off >= 0
           /\ strips[i].win >= 1
           /\ strips[i].off + strips[i].win <= Extent(strips[i].phase)
    /\ \A phase \in {1, 2} : \A k \in 0 .. Extent(phase) - 1 :
           Cardinality(Covering(phase, k)) <= 1
    /\ epc = "phase1" => \A i \in StripsOf(1) : ~ReachesEdge(i)
    /\ epc = "phase2" => \A i \in StripsOf(2) : ~ReachesEdge(i)
    /\ Phase1Done =>
           /\ Covered(1) = 0 .. n_cols - 1
           /\ \A i \in StripsOf(1) : ReachesEdge(i) <=> i = Cardinality(StripsOf(1))
    /\ epc \in {"cleanup", "done"} =>
           /\ Covered(2) = 0 .. n_rows - 1
           /\ \A i \in StripsOf(2) : ReachesEdge(i) <=> i = Len(strips)
    /\ DOMAIN g_raster = (0 .. n_rows - 1) \X Covered(1)
    /\ DOMAIN target_raster = Covered(2) \X (0 .. n_cols - 1)
    /\ g_read = Covered(2) \X (0 .. n_cols - 1)
\* The transform has returned; the block width leaves a remainder of the
\* columns and the block height divides the rows, both loops having made
\* more than one pass.
C23_Witness ==
    /\ epc = "done"
    /\ n_cols > block_xsize /\ n_cols % block_xsize # 0
    /\ n_rows > block_ysize /\ n_rows % block_ysize = 0
    /\ Cardinality(StripsOf(1)) > 1
    /\ Cardinality(StripsOf(2)) > 1

\* --------------------------------------------------- claims on MaskWrapper

\* C3: the result has the shape of the window; a cell is 1 iff the source
\* cell differs from base_nodata and is non-zero, 0 iff it differs from
\* base_nodata and is zero, NODATA (-1) iff it equals base_nodata; cells of
\* equal source value get equal results.
C3_MaskWrapperCells ==
    mpc = "returned" =>
        /\ DOMAIN mask_result = DOMAIN base_array
        /\ \A p \in DOMAIN base_array :
              /\ mask_result[p] = 1 <=>
                    (base_array[p] # self_base_nodata /\ base_array[p] # 0)
              /\ mask_result[p] = 0 <=>
                    (base_array[p] # self_base_nodata /\ base_array[p] = 0)
              /\ mask_result[p] = NODATA <=> base_array[p] = self_base_nodata
        /\ \A p, q \in DOMAIN base_array :
              base_array[p] = base_array[q] => mask_result[p] = mask_result[q]

\* A returned window that holds a nodata cell, a zero cell and two different
\* non-zero values among its cells.
C3_Witness ==
    /\ mpc = "returned"
    /\ \E p, q, r \in DOMAIN base_array :
          /\ base_array[p] = self_base_nodata
          /\ base_array[q] # self_base_nodata /\ base_array[q] = 0
          /\ base_array[r] # self_base_nodata /\ base_array[r] \notin {0, 1}

\* -------------------------------------------------- claims on stats_worker

\* The producer is blocked in put on a full queue.
ProducerBlocked == ppc = "pushing" /\ Len(stats_work_queue) >= QueueCap

\* C4: after a fault the producer is never left blocked on a full queue: it
\* is not blocked in put once the worker has drained the queue and ended.
C4_ProducerNeverLeftBlocked == ~(wpc = "raised" /\ ProducerBlocked)

\* C5: on a fault exactly one fault value is put on exception_queue, and the
\* worker puts neither a statistics tuple nor None on the result channel.
C5_FaultReportedOnce ==
    /\ Len(exception_queue) <= 1
    /\ wpc \in {"drain", "raised"} => Len(exception_queue) = 1
    /\ wpc \in {"except", "drain", "raised"} => emitted = <<>>
    /\ exception_queue # <<>> => wpc \in {"drain", "raised"}

\* The worker has ended by re-raising, after draining at least one block.
C5_Witness == wpc = "raised" /\ gets > blocks_got + 1

\* C6: when the marker arrives and no sample has been consumed, the worker
\* puts None exactly once, puts no statistics tuple and never divides by 0.
C6_EmptyStream ==
    /\ 0 \notin divisors
    /\ (wpc = "done" /\ n = 0) => emitted = <<None>>

\* The worker has ended on a stream of empty blocks only.
C6_Witness == wpc = "done" /\ n = 0 /\ blocks_got > 0

SeqMin(q) == CHOOSE v \in {q[i] : i \in DOMAIN q} : \A i \in DOMAIN q : v <= q[i]
SeqMax(q) == CHOOSE v \in {q[i] : i \in DOMAIN q} : \A i \in DOMAIN q : v >= q[i]
RECURSIVE SeqSum(_)
SeqSum(q) == IF q = <<>> THEN 0 ELSE Head(q) + SeqSum(Tail(q))
\* The locals of a worker that has consumed nothing.
FreshLocals == [n |-> 0, M |-> RInt(0), S |-> RInt(0), min |-> RInt(0),
                max |-> RInt(0), x |-> RInt(0), div |-> {}]

\* C7: the emitted result is the one of the same samples pushed as a single
\* block, whatever the block boundaries; its minimum and maximum are those of
\* the samples and its mean is their arithmetic mean.
C7_ChunkingIndependent ==
    (wpc = "done" /\ n > 0) =>
        /\ emitted = <<Finalize(ConsumeBlock(FreshLocals, consumed, 1)).put>>
        /\ emitted[1].data[1] = RInt(SeqMin(consumed))
        /\ emitted[1].data[2] = RInt(SeqMax(consumed))
        /\ emitted[1].data[3] = Rat(SeqSum(consumed), Len(consumed))

\* The worker has ended on samples that came in several blocks, one of them
\* empty, the largest sample not the first one.
C7_Witness ==
    /\ wpc = "done"
    /\ blocks_got > 1
    /\ Len(consumed) >= blocks_got
    /\ consumed[1] < SeqMax(consumed)

RECURSIVE SumSqDev(_, _)
SumSqDev(q, mean) ==
    IF q = <<>> THEN RInt(0)
    ELSE RAdd(RMul(RSub(RInt(Head(q)), mean), RSub(RInt(Head(q)), mean)),
              SumSqDev(Tail(q), mean))
MeanOf(q) == Rat(SeqSum(q), Len(q))

\* C22: n is the number of samples consumed so far, over all blocks; once
\* it is at least 1, M_local is their mean, S_local the sum of the squares
\* of their deviations from it, and min_value <= M_local <= max_value; the
\* fourth component of an emitted result is the square root of S_local / n,
\* the population standard deviation of the samples.
C22_WelfordInvariant ==
    /\ n = Len(consumed)
    /\ n >= 1 =>
           /\ M_local = MeanOf(consumed)
           /\ S_local = SumSqDev(consumed, MeanOf(consumed))
           /\ ~RLess(M_local, min_value)
           /\ ~RLess(max_value, M_local)
    /\ \A i \in DOMAIN emitted :
           emitted[i].kind = "stats" =>
               emitted[i].data[4] =
                   FSqrt(RDivInt(SumSqDev(consumed, MeanOf(consumed)),
                                 Len(consumed)))
\* A result has been emitted for three or more samples that came in several
\* blocks, not all equal, their mean not a whole number.
C22_Witness ==
    /\ emitted # <<>>
    /\ emitted[1].kind = "stats"
    /\ n >= 3
    /\ blocks_got >= 2
    /\ S_local # RInt(0)
    /\ M_local.den # 1

\* ------------------------------------------------ claims on calculate_slope

DemCells == Cells(dem_n_rows, dem_n_cols)
\* The elevation at p, nodata outside the raster.
Elevation(p) == IF p \in DemCells THEN dem_raster[p] ELSE dem_nodata
Offsets3x3 == (-1 .. 1) \X (-1 .. 1)
Neighbours(p) ==
    {<<p[1] + o[1], p[2] + o[2]>> : o \in Offsets3x3 \ {<<0, 0>>}}
ZeroSlope == [neg |-> FALSE, sq |-> Root2Int(0)]
\* The cells of the block just processed, and the place of p in dem_array.
BlockCells ==
    IF block_offset = None THEN {}
    ELSE (block_offset.yoff .. block_offset.yoff + block_offset.win_ysize - 1)
         \X (block_offset.xoff .. block_offset.xoff + block_offset.win_xsize - 1)
Local(p) == <<p[1] - block_offset.yoff + 1, p[2] - block_offset.xoff + 1>>
AccumulatorsAt(p) == Accumulate(dem_array, Local(p)[1], Local(p)[2], dem_nodata)

\* C11: when calculate_slope has returned, a cell of the target is
\* slope-nodata if and only if its own elevation is the nodata value of the
\* elevation band.
C11_NodataIffOwnElevationNodata ==
    spc = "done" =>
        \A p \in DemCells :
            (target_slope_raster[p] = SlopeNodataOut) <=> (dem_raster[p] = dem_nodata)

\* C12: a cell with a valid elevation all of whose eight neighbours are
\* nodata or outside the raster has both denominator factors 0 and is
\* written the slope 0.
Isolated(p) ==
    /\ dem_raster[p] # dem_nodata
    /\ \A q \in Neighbours(p) : Elevation(q) = dem_nodata
C12_IsolatedCellHasSlopeZero ==
    \A p \in BlockCells :
        Isolated(p) =>
            /\ AccumulatorsAt(p).x_denom_factor = 0
            /\ AccumulatorsAt(p).y_denom_factor = 0
            /\ target_slope_raster[p] = ZeroSlope
C12_Witness ==
    /\ spc = "done"
    /\ dem_n_rows * dem_n_cols > 1
    /\ \E p \in DemCells : Isolated(p) /\ target_slope_raster[p] = ZeroSlope

\* C13: in a raster all of whose valid cells have the same elevation, every
\* valid cell has zero accumulators and is written the slope 0.
Flat ==
    \A p, q \in DemCells :
        (dem_raster[p] # dem_nodata /\ dem_raster[q] # dem_nodata)
            => dem_raster[p] = dem_raster[q]
C13_FlatPlaneHasSlopeZero ==
    Flat =>
        \A p \in BlockCells :
            dem_raster[p] # dem_nodata =>
                /\ AccumulatorsAt(p).dzdx_accumulator = Root2Int(0)
                /\ AccumulatorsAt(p).dzdy_accumulator = Root2Int(0)
                /\ target_slope_raster[p] = ZeroSlope
C13_Witness ==
    /\ spc = "done"
    /\ Flat
    /\ \E p, q \in DemCells :
          /\ dem_raster[p] = dem_nodata
          /\ dem_raster[q] \notin {0, dem_nodata}
          /\ q \in Neighbours(p)
          /\ ~Isolated(q)
          /\ target_slope_raster[q] = ZeroSlope

\* C14: on a linear ramp k + gx*c + gy*r, a valid cell whose eight
\* neighbours are all inside the raster and valid has the accumulators
\* -8*gx and -8*gy, both denominator factors 8, and is written the percent
\* slope 100*sqrt((gx/x_cell_size)^2 + (gy/y_cell_size)^2).
FullyPopulated(p) ==
    /\ dem_raster[p] # dem_nodata
    /\ \A q \in Neighbours(p) : q \in DemCells /\ dem_raster[q] # dem_nodata
RampSlope(gx, gy) ==
    [neg |-> FALSE,
     sq |-> Root2(RAdd(Rat(10000 * gx * gx, x_cell_size * x_cell_size),
                       Rat(10000 * gy * gy, y_cell_size * y_cell_size)),
                  RInt(0))]
C14_RampSlope ==
    \A k \in RampBases, gx, gy \in RampGradients :
        dem_raster = Ramp(dem_n_rows, dem_n_cols, k, gx, gy) =>
            \A p \in BlockCells :
                FullyPopulated(p) =>
                    /\ AccumulatorsAt(p).dzdx_accumulator \in
                           {Root2Int(8 * gx), Root2Int(-8 * gx)}
                    /\ AccumulatorsAt(p).x_denom_factor = 8
                    /\ AccumulatorsAt(p).dzdy_accumulator \in
                           {Root2Int(8 * gy), Root2Int(-8 * gy)}
                    /\ AccumulatorsAt(p).y_denom_factor = 8
                    /\ target_slope_raster[p] = RampSlope(gx, gy)

\* C15: the 3x3 neighbourhood read for every cell of a block is the cell's
\* neighbourhood in the whole raster, nodata outside it; no cell outside the
\* raster is written and no cell twice; when calculate_slope has returned
\* every cell has been written once, with the slope a single window over
\* the whole raster gives.
WholeRaster ==
    [xoff |-> 0, yoff |-> 0, win_xsize |-> dem_n_cols, win_ysize |-> dem_n_rows]
SingleWindowSlope ==
    SlopeArray(ReadDemArray(dem_raster, dem_nodata, WholeRaster,
                            dem_n_rows, dem_n_cols),
               WholeRaster, dem_nodata, x_cell_size, y_cell_size)
C15_BlockingIndependent ==
    /\ \A p \in BlockCells : \A o \in Offsets3x3 :
           dem_array[<<Local(p)[1] + o[1], Local(p)[2] + o[2]>>]
               = Elevation(<<p[1] + o[1], p[2] + o[2]>>)
    /\ DOMAIN slope_writes \subseteq DemCells
    /\ \A p \in DOMAIN slope_writes :
           slope_writes[p] = 1 /\ target_slope_raster[p] = SingleWindowSlope[p]
    /\ spc = "done" => DOMAIN slope_writes = DemCells
C15_Witness ==
    /\ spc = "done"
    /\ Len(IterBlocks(dem_n_rows, dem_n_cols, dem_block_xsize, dem_block_ysize)) > 2
    /\ block_offset.xoff + block_offset.win_xsize = dem_n_cols
    /\ block_offset.xoff > 0
    /\ \E p \in DemCells : target_slope_raster[p] \notin {ZeroSlope, SlopeNodataOut}

\* The four outer pairs (a-c, g-i, a-g, c-i) of the window read around the
\* cell p of the block just processed: the corners p and q, the cell m
\* between them, the centre e.
WindowAt(p, o) == dem_array[<<Local(p)[1] + o[1], Local(p)[2] + o[2]>>]
OuterPair(p, op, om, oq) ==
    [p |-> WindowAt(p, op), m |-> WindowAt(p, om), q |-> WindowAt(p, oq),
     e |-> WindowAt(p, <<0, 0>>)]
OuterPairs(p) ==
    {OuterPair(p, <<-1, -1>>, <<-1, 0>>, <<-1, 1>>),
     OuterPair(p, <<1, -1>>, <<1, 0>>, <<1, 1>>),
     OuterPair(p, <<-1, -1>>, <<0, -1>>, <<1, -1>>),
     OuterPair(p, <<-1, 1>>, <<0, 1>>, <<1, 1>>)}
Contribution(w) == CornerDirection(w.p, w.m, w.q, w.e, dem_nodata)
OnlyP(w) == w.p # dem_nodata /\ w.q = dem_nodata
OnlyQ(w) == w.p = dem_nodata /\ w.q # dem_nodata
ValidBlockCells == {p \in BlockCells : dem_raster[p] # dem_nodata}

BothNodata(w) == w.p = dem_nodata /\ w.q = dem_nodata
\* The a-c pair is the only one that can add to the dz/dx accumulator of p.
OnlyTopRow(p) ==
    \A o \in {<<0, -1>>, <<0, 1>>, <<1, -1>>, <<1, 1>>} : WindowAt(p, o) = dem_nodata

\* C21: an outer pair of which exactly one neighbour is valid adds
\* (p - e)*sqrt(2), or (e - q)*sqrt(2), to the numerator and 1 to the
\* denominator factor, whatever the cell between the pair; a pair of which
\* both are nodata adds nothing.
ClaimedContribution(w) ==
    IF OnlyP(w) THEN Term(TimesRoot2(w.p - w.e), 1)
    ELSE IF OnlyQ(w) THEN Term(TimesRoot2(w.e - w.q), 1)
    ELSE Term(Root2Int(0), 0)
C21_OneSidedFallback ==
    \A p \in ValidBlockCells : \A w \in OuterPairs(p) :
        (OnlyP(w) \/ OnlyQ(w) \/ BothNodata(w))
            => Contribution(w) = ClaimedContribution(w)

\* C21, amended: with exactly one neighbour of the pair valid, the pair adds
\* p - m, or m - q, when the cell m between the pair is valid, and
\* (p - e)*sqrt(2), or (e - q)*sqrt(2), when m is nodata; the denominator
\* factor grows by 1 in both cases; a pair of which both are nodata adds
\* nothing.  Where no other pair can add to it, the dz/dx accumulator and
\* its denominator factor are what the a-c pair adds.
AmendedContribution(w) ==
    IF OnlyP(w) /\ w.m # dem_nodata THEN Term(Root2Int(w.p - w.m), 1)
    ELSE IF OnlyP(w) THEN Term(TimesRoot2(w.p - w.e), 1)
    ELSE IF OnlyQ(w) /\ w.m # dem_nodata THEN Term(Root2Int(w.m - w.q), 1)
    ELSE IF OnlyQ(w) THEN Term(TimesRoot2(w.e - w.q), 1)
    ELSE Term(Root2Int(0), 0)
C21_OneSidedFallbackUsesMiddle ==
    \A p \in ValidBlockCells :
        /\ \A w \in OuterPairs(p) :
               (OnlyP(w) \/ OnlyQ(w) \/ BothNodata(w))
                   => Contribution(w) = AmendedContribution(w)
        /\ LET w == OuterPair(p, <<-1, -1>>, <<-1, 0>>, <<-1, 1>>)
           IN  (OnlyTopRow(p) /\ (OnlyP(w) \/ OnlyQ(w) \/ BothNodata(w))) =>
                   /\ AccumulatorsAt(p).dzdx_accumulator = AmendedContribution(w).num
                   /\ AccumulatorsAt(p).x_denom_factor = AmendedContribution(w).den
C21_Witness ==
    /\ spc = "done"
    /\ \E p \in ValidBlockCells :
          LET w == OuterPair(p, <<-1, -1>>, <<-1, 0>>, <<-1, 1>>)
          IN  OnlyTopRow(p) /\ OnlyP(w) /\ w.m # dem_nodata /\ w.p # w.m
    /\ \E p \in ValidBlockCells : \E v \in OuterPairs(p) :
          OnlyQ(v) /\ v.m = dem_nodata /\ v.q # v.e

====
